---- MODULE Spec2Model ----
(***************************************************************************)
(* A model of netlify/functions/carousel.js: the carousel handler with its *)
(* per-client rate limiter, the fan-out of slide jobs and uploads, the     *)
(* response assembly, the redirect-following image download and the text   *)
(* overlay composer.                                                       *)
(*                                                                         *)
(* Time is counted in seconds.  Strings that matter character by character *)
(* (titles, colours, markup) are sequences of one-character strings.       *)
(***************************************************************************)
EXTENDS Integers, Sequences, FiniteSets, TLC

VARIABLES
  now,             \* Date.now(), in seconds
  rateLimitCache,  \* the NodeCache of line 8: key -> stored entry
  inv,             \* the handler invocations in flight: slot -> its locals
  win,             \* history: per client, the life of its counter entry
  dl,              \* one call of downloadImage, with the calls it makes of itself
  ov,              \* one call of createTextSVG: the slide given, the markup made
  wr,              \* one call of wrapTextIntoLines: its arguments, the lines
  es               \* one text, with escapeXml applied to it once and twice

vars == <<now, rateLimitCache, inv, win, dl, ov, wr, es>>

---------------------------------------------------------------------------
(* Bounds of the model *)

MaxSlides == 2      \* longest backgrounds/slides array of a request
MaxTextLen == 3     \* longest title given to the overlay composer
MaxChunks == 2      \* most data events of one response body
MaxWrapLen == 5     \* longest text given to the text wrapper alone
MaxTime == 120      \* the clock stops here (rate-limit specification)
TickStep == 30      \* seconds that pass in one step of the clock

---------------------------------------------------------------------------
(* Program constants *)

RATE_LIMIT == 10
stdTTL == 60
maxSizeBytes == 6000000
maxRedirects == 10
MinDimension == 200
MaxDimension == 4000

Slots == {1}
Clients == {"X", "unknown"}

---------------------------------------------------------------------------
(* Helpers on sequences *)

RECURSIVE SumSeq(_)
SumSeq(s) == IF s = <<>> THEN 0 ELSE Head(s) + SumSeq(Tail(s))

RECURSIVE Concat(_)
Concat(ss) == IF ss = <<>> THEN <<>> ELSE Head(ss) \o Concat(Tail(ss))

Map(f(_), s) == [k \in 1..Len(s) |-> f(s[k])]

SeqsUpTo(S, n) == UNION {[1..k -> S] : k \in 0..n}

---------------------------------------------------------------------------
(* node-cache, as the handler uses it *)

NoEntry == [has |-> FALSE, v |-> 0, t |-> 0]

\* get(key): the stored value unless the entry is missing or its expiry time
\* lies before the current time (node-cache checks expiry on every read).
NodeCacheGet(cache, key, clock) ==
  IF cache[key].has /\ ~(cache[key].t < clock)
    THEN [found |-> TRUE, value |-> cache[key].v]
    ELSE [found |-> FALSE, value |-> 0]

\* set(key, value) without a ttl: the entry is written with a new expiry time
\* of stdTTL seconds from the time of the write.
NodeCacheSet(cache, key, value, clock) ==
  [cache EXCEPT ![key] = [has |-> TRUE, v |-> value, t |-> clock + stdTTL]]


---------------------------------------------------------------------------
(* Requests.  An event is what the platform hands to the handler: the     *)
(* method, the two headers the handler reads, and the JSON body.  A       *)
(* header that is absent is the empty string (both are falsy).            *)

SlideKinds == {"text", "plain", "null"}   \* has a title; no text; JSON null

DefaultEvent ==
  [httpMethod |-> "POST", xff |-> "X", cip |-> "", parse |-> "ok",
   bgIsArray |-> TRUE, bgLen |-> 0, slIsArray |-> TRUE, slides |-> <<>>,
   width |-> 1080, height |-> 1080,
   uploadToDrive |-> FALSE, driveToken |-> FALSE, returnUrls |-> FALSE]

\* (width, height) pairs: inside the range, on its borders, just outside
DimPairs ==
  {<<1080, 1080>>, <<200, 4000>>, <<199, 1080>>, <<4001, 1080>>,
   <<1080, 199>>, <<1080, 4001>>}

\* (uploadToDrive, driveToken given, returnUrls)
UploadOptions ==
  {<<FALSE, FALSE, FALSE>>, <<FALSE, TRUE, TRUE>>, <<TRUE, FALSE, TRUE>>,
   <<TRUE, TRUE, FALSE>>, <<TRUE, TRUE, TRUE>>}

PostEvents(maxLen) ==
  {[DefaultEvent EXCEPT !.bgIsArray = ba, !.bgLen = bl, !.slIsArray = sa,
                        !.slides = sl, !.width = d[1], !.height = d[2],
                        !.uploadToDrive = u[1], !.driveToken = u[2],
                        !.returnUrls = u[3]] :
     ba \in BOOLEAN, bl \in 0..maxLen, sa \in BOOLEAN,
     sl \in SeqsUpTo(SlideKinds, maxLen), d \in DimPairs, u \in UploadOptions}

BatchEvents ==
  {[DefaultEvent EXCEPT !.httpMethod = m] : m \in {"OPTIONS", "GET"}}
  \cup {[DefaultEvent EXCEPT !.parse = "throws"]}
  \cup PostEvents(MaxSlides)

ClientIPHeadersMissed(e) == "unknown"

\* line 459-461
ClientIP(e) ==
  IF e.xff # "" THEN e.xff ELSE IF e.cip # "" THEN e.cip ELSE "unknown"

---------------------------------------------------------------------------
(* Slide results (generateSlide, lines 370-381) *)

Filename(index) == <<"carousel-slide-", index + 1, ".png">>

SuccessResult(index, bytes) ==
  [keys |-> {"base64", "filename", "success"}, success |-> TRUE,
   filename |-> Filename(index), base64 |-> bytes, error |-> ""]

FailureResult(index, message) ==
  [keys |-> {"success", "error", "filename"}, success |-> FALSE,
   filename |-> Filename(index), base64 |-> 0, error |-> message]

\* length of the data URI of a finished slide
ImageBytes == {1000, 3000000}

DownloadErrors == {"Invalid URL", "Network error"}
ResizeErrors == {"Input buffer contains unsupported image format"}
CompositeErrors == {"Input image exceeds pixel limit"}
NullSlideError == "Cannot read properties of null (reading 'title')"

\* A slide job: where generateSlide is suspended, the slide it was given,
\* and what it returned.  "threw" is a job whose promise rejected.
NoResult == [keys |-> {}, success |-> FALSE, filename |-> <<>>, base64 |-> 0, error |-> ""]

StartedJob(slide) == [pc |-> "downloadImage", slide |-> slide, result |-> NoResult]

RethrowSlideError(job, index, message) ==
  [pc |-> "threw", slide |-> "", result |-> NoResult]

\* the catch block of generateSlide, lines 375-382
CatchSlideError(job, index, message) ==
  [pc |-> "returned", slide |-> "", result |-> FailureResult(index, message)]

ReturnSlide(job, index, bytes) ==
  [pc |-> "returned", slide |-> "", result |-> SuccessResult(index, bytes)]

Settled(job) == job.pc \in {"returned", "threw"}

---------------------------------------------------------------------------
(* Uploads (uploadToDrive, lines 388-430): the call always resolves, with  *)
(* success and the links of the created file, or with the error caught.    *)

UploadPending(filename) == [pc |-> "create", file |-> filename, success |-> FALSE, error |-> ""]
UploadOk(filename) == [pc |-> "returned", file |-> filename, success |-> TRUE, error |-> ""]
UploadError(filename, message) ==
  [pc |-> "returned", file |-> filename, success |-> FALSE, error |-> message]

UploadErrors == {"Invalid Credentials"}

\* what the handler holds of an upload: the object uploadToDrive returned
DriveUrl(u) ==
  IF u.success
    THEN [keys |-> {"success", "fileId", "webViewLink", "webContentLink"}, success |-> TRUE, error |-> ""]
    ELSE [keys |-> {"success", "error"}, success |-> FALSE, error |-> u.error]

---------------------------------------------------------------------------
(* Responses *)

CorsHeaders == {"Content-Type", "Access-Control-Allow-Origin"}
PreflightHeaders ==
  {"Access-Control-Allow-Origin", "Access-Control-Allow-Methods", "Access-Control-Allow-Headers"}

NoStats == [totalSlides |-> 0, successful |-> 0, failed |-> 0, width |-> 0, height |-> 0]

NoResponse ==
  [statusCode |-> 0, headers |-> {}, keys |-> {}, success |-> FALSE, error |-> "",
   images |-> <<>>, failed |-> <<>>, driveUrls |-> <<>>, stats |-> NoStats]

\* a response whose body is { error: message } and that sets no header
\* (lines 451-454, 465-470, 489-518)
ErrorResponse(status, message) ==
  [NoResponse EXCEPT !.statusCode = status, !.keys = {"error"}, !.error = message]

\* lines 438-446
PreflightResponse ==
  [NoResponse EXCEPT !.statusCode = 200, !.headers = PreflightHeaders]

\* the catch block of the handler, lines 646-659
InternalError(message) ==
  [NoResponse EXCEPT !.statusCode = 500, !.headers = CorsHeaders,
                     !.keys = {"success", "error"}, !.error = message]

\* lines 537-538
SuccessfulSlides(results) == SelectSeq(results, LAMBDA r : r.success)
FailedSlides(results) == SelectSeq(results, LAMBDA r : ~r.success)

\* lines 558-568
UrlEntry(slide) ==
  [keys |-> {"filename", "success", "driveUrl"}, success |-> TRUE,
   filename |-> slide.filename, base64 |-> 0, error |-> ""]

UrlOnlyIfSomeUploaded(e, driveUrls) ==
  e.returnUrls /\ Len(driveUrls) > 0 /\ \E k \in 1..Len(driveUrls) : driveUrls[k].success

UrlOnly(e, driveUrls) ==
  e.returnUrls /\ Len(driveUrls) > 0 /\ \A k \in 1..Len(driveUrls) : driveUrls[k].success

ResponseImages(e, successfulSlides, driveUrls) ==
  IF UrlOnly(e, driveUrls) THEN Map(UrlEntry, successfulSlides) ELSE successfulSlides

\* lines 576-582 (generationTimeMs is left out: no claim reads it)
Stats(e, results) ==
  [totalSlides |-> e.bgLen, successful |-> Len(SuccessfulSlides(results)),
   failed |-> Len(FailedSlides(results)), width |-> e.width, height |-> e.height]

\* lines 571-583: a key whose value is undefined is not serialized
SuccessBody(e, results, driveUrls) ==
  [NoResponse EXCEPT
     !.keys = {"success", "images", "stats"}
              \cup (IF Len(FailedSlides(results)) > 0 THEN {"failed"} ELSE {})
              \cup (IF Len(driveUrls) > 0 THEN {"driveUrls"} ELSE {}),
     !.success = TRUE,
     !.images = ResponseImages(e, SuccessfulSlides(results), driveUrls),
     !.failed = FailedSlides(results),
     !.driveUrls = driveUrls,
     !.stats = Stats(e, results)]

\* Buffer.byteLength(JSON.stringify(response)), lines 586-587.  The data URI
\* of an image counts with its length; the text around it, whose length
\* does not depend on the images, with the length of a typical rendering.
EntryBytes(r) ==
  IF "base64" \in r.keys THEN 62 + r.base64
  ELSE IF "driveUrl" \in r.keys THEN 160
  ELSE 110

DriveUrlBytes(u) == IF u.success THEN 260 ELSE 60

ResponseBytes(body) ==
  150 + SumSeq(Map(EntryBytes, body.images)) + SumSeq(Map(EntryBytes, body.failed))
      + SumSeq(Map(DriveUrlBytes, body.driveUrls))

\* lines 590-634
PayloadTooLarge(e, results) ==
  [NoResponse EXCEPT !.statusCode = 413, !.headers = CorsHeaders,
                     !.keys = {"success", "error", "suggestion", "stats"},
                     !.error = "Response payload too large",
                     !.stats = Stats(e, results)]

TooLargeInMebibytes(responseSizeBytes) == responseSizeBytes > 6 * 1024 * 1024

TooLarge(responseSizeBytes) == responseSizeBytes > maxSizeBytes

\* lines 554-644: what the handler returns once slides and uploads are in
Assemble(e, results, driveUrls) ==
  LET response == SuccessBody(e, results, driveUrls) IN
  IF TooLarge(ResponseBytes(response))
    THEN PayloadTooLarge(e, results)
    ELSE [response EXCEPT !.statusCode = 200, !.headers = CorsHeaders]

---------------------------------------------------------------------------
(* downloadImage (lines 15-99).  The call issues one request; a redirect   *)
(* makes it call itself with redirectCount + 1, and the promise of the     *)
(* inner call settles the promise of the outer one, so the chain has one   *)
(* outcome.  The server and the network are free to answer as they like.   *)

\* a response as the callback of line 33 sees it: the status, the Location
\* header ("" if absent, "invalid" if new URL(location, url) throws), the
\* Content-Type header ("" if absent)
Responses ==
  [statusCode : {200, 300, 301, 302, 303, 304, 307, 308, 404, 500},
   location : {"", "/next", "invalid"},
   contentType : {"", "image/png", "text/html"}]

NoResponseYet == [statusCode |-> 0, location |-> "", contentType |-> ""]

\* the buffers that data events deliver
Chunks == {<<"a">>, <<"b", "c">>}

Pending == [state |-> "pending", error |-> "", value |-> <<>>]
Resolved(bytes) == [state |-> "resolved", error |-> "", value |-> bytes]
Rejected(message) == [state |-> "rejected", error |-> message, value |-> <<>>]

\* pc: "request" while a request waits for its response, "body" while the
\* body of a 200 response is read, "settled" once the promise is settled.
\* attempts, hops, fault, received and calls are history: the requests
\* issued, the redirect hops received (3xx responses with a Location that
\* resolves), whether the transport failed, the bytes of the body in the
\* order they came, and the calls of resolve and reject made so far.
NotCalled ==
  [pc |-> "idle", redirectCount |-> 0, last |-> NoResponseYet, chunks |-> <<>>,
   outcome |-> Pending, attempts |-> 0, hops |-> 0, fault |-> FALSE,
   received |-> <<>>, calls |-> 0]

SettleOverwrites(d, outcome) ==
  [d EXCEPT !.pc = "settled", !.outcome = outcome, !.calls = @ + 1]

\* resolve(value) or reject(error) of the promise of line 16: the first call
\* settles it, a later call is ignored
Settle(d, outcome) ==
  IF d.outcome.state = "pending"
    THEN [d EXCEPT !.pc = "settled", !.outcome = outcome, !.calls = @ + 1]
    ELSE [d EXCEPT !.calls = @ + 1]

TooManyRedirectsError == "Too many redirects (max 10). Possible redirect loop."

TooManyRedirectsOffByOne(redirectCount) == redirectCount >= maxRedirects

\* line 18
TooManyRedirects(redirectCount) == redirectCount > maxRedirects

\* lines 16-33: the body of the promise up to the request; new URL(url)
\* throws on a malformed url, which rejects the promise
Call(d, url, redirectCount) ==
  IF TooManyRedirects(redirectCount)
    THEN Settle([d EXCEPT !.redirectCount = redirectCount], Rejected(TooManyRedirectsError))
  ELSE IF url = "malformed"
    THEN Settle([d EXCEPT !.redirectCount = redirectCount], Rejected("Invalid URL"))
  ELSE [d EXCEPT !.pc = "request", !.redirectCount = redirectCount,
                 !.attempts = @ + 1, !.chunks = <<>>, !.received = <<>>]

\* line 35
IsRedirect(response) ==
  response.statusCode >= 300 /\ response.statusCode < 400 /\ response.location # ""

\* line 67
InvalidContentType(response) ==
  response.contentType # "" /\ response.contentType # "image/png"

\* lines 33-83: the response callback
OnResponse(d, response) ==
  LET seen == [d EXCEPT !.last = response,
                        !.hops = IF IsRedirect(response) /\ response.location # "invalid"
                                   THEN @ + 1 ELSE @]
  IN
  IF IsRedirect(response) THEN
    IF response.location = "invalid"
      THEN Settle(seen, Rejected("Invalid redirect URL"))
      ELSE Call(seen, "redirectUrl", d.redirectCount + 1)
  ELSE IF response.statusCode # 200
    THEN Settle(seen, Rejected("Failed to download image: HTTP status"))
  ELSE IF InvalidContentType(response)
    THEN Settle(seen, Rejected("Invalid content type. Expected an image."))
  ELSE [seen EXCEPT !.pc = "body"]

OnEndWithoutReject(d) ==
  IF Len(d.chunks) = 0
    THEN [d EXCEPT !.pc = "ended"]
    ELSE Settle(d, Resolved(Concat(d.chunks)))

\* lines 75-81: the end of the body
OnEnd(d) ==
  IF Len(d.chunks) = 0
    THEN Settle(d, Rejected("Empty response from image server"))
    ELSE Settle(d, Resolved(Concat(d.chunks)))

DownloadCalled(url) ==
  /\ dl.pc = "idle"
  /\ dl' = Call(dl, url, 0)
  /\ UNCHANGED <<now, rateLimitCache, inv, win, ov, wr, es>>

ResponseArrives ==
  /\ dl.pc = "request"
  /\ \E response \in Responses : dl' = OnResponse(dl, response)
  /\ UNCHANGED <<now, rateLimitCache, inv, win, ov, wr, es>>

\* line 74
DataArrives ==
  /\ dl.pc = "body"
  /\ Len(dl.chunks) < MaxChunks
  /\ \E chunk \in Chunks :
       dl' = [dl EXCEPT !.chunks = Append(@, chunk), !.received = @ \o chunk]
  /\ UNCHANGED <<now, rateLimitCache, inv, win, ov, wr, es>>

BodyEnds ==
  /\ dl.pc = "body"
  /\ dl' = OnEnd(dl)
  /\ UNCHANGED <<now, rateLimitCache, inv, win, ov, wr, es>>

\* lines 82, 85-87, 95-97: an error of the response or of the request, or
\* the request aborted
TransportFails ==
  /\ dl.pc \in {"request", "body"}
  /\ \E message \in {"Network error", "Image download was aborted"} :
       dl' = Settle([dl EXCEPT !.fault = TRUE], Rejected(message))
  /\ UNCHANGED <<now, rateLimitCache, inv, win, ov, wr, es>>

TimeoutError == "Image download timeout after 10000ms"

\* lines 89-92: 10 seconds without traffic on the request
TimesOut ==
  /\ dl.pc \in {"request", "body"}
  /\ dl' = Settle([dl EXCEPT !.fault = TRUE], Rejected(TimeoutError))
  /\ UNCHANGED <<now, rateLimitCache, inv, win, ov, wr, es>>

\* lines 82, 85-87 after line 90: request.destroy() of the timeout handler
\* makes the request (or the response being read) emit an error, whose
\* handler calls reject on the promise that the timeout has settled
ErrorAfterDestroy ==
  /\ dl.pc = "settled"
  /\ dl.outcome.error = TimeoutError
  /\ dl.calls = 1
  /\ dl' = Settle(dl, Rejected("Network error"))
  /\ UNCHANGED <<now, rateLimitCache, inv, win, ov, wr, es>>

NextFetch ==
  \/ \E url \in {"url", "malformed"} : DownloadCalled(url)
  \/ ResponseArrives
  \/ DataArrives
  \/ BodyEnds
  \/ TransportFails
  \/ TimesOut
  \/ ErrorAfterDestroy

---------------------------------------------------------------------------
(* The text overlay: wrapTextIntoLines (lines 105-147), escapeXml (lines   *)
(* 298-309) and createTextSVG (lines 153-293).  A text is a sequence of    *)
(* characters.  An optional number is <<>> when absent and <<v>> when set. *)

RECURSIVE TrimStart(_)
TrimStart(s) == IF s # <<>> /\ Head(s) = " " THEN TrimStart(Tail(s)) ELSE s

RECURSIVE TrimEnd(_)
TrimEnd(s) ==
  IF s # <<>> /\ s[Len(s)] = " " THEN TrimEnd(SubSeq(s, 1, Len(s) - 1)) ELSE s

\* String.prototype.trim
Trim(s) == TrimEnd(TrimStart(s))

\* text.split(' '), line 110: the pieces between single spaces, empty ones kept
RECURSIVE Split(_, _)
Split(s, word) ==
  IF s = <<>> THEN <<word>>
  ELSE IF Head(s) = " " THEN <<word>> \o Split(Tail(s), <<>>)
  ELSE Split(Tail(s), Append(word, Head(s)))

\* lines 116-128, in hundredths
CharWidthMultiplier(fontFamily) ==
  CASE fontFamily \in {"Impact", "Arial Black"} -> 65
    [] fontFamily \in {"Bebas Neue", "Arial", "Helvetica", "Georgia"} -> 55
    [] fontFamily \in {"Futura", "Times"} -> 50
    [] OTHER -> 55

RECURSIVE FillLinesDropsLine(_, _, _, _, _, _)
FillLinesDropsLine(words, lines, currentLine, maxWidth, fontSize, multiplier) ==
  IF words = <<>> THEN
    IF currentLine # <<>> THEN Append(lines, currentLine) ELSE lines
  ELSE
    LET word == Head(words)
        testLine == IF currentLine # <<>> THEN currentLine \o <<" ">> \o word ELSE word
        estimatedWidth == Len(testLine) * fontSize * multiplier
    IN
    IF estimatedWidth > maxWidth * 100 /\ currentLine # <<>>
      THEN FillLinesDropsLine(Tail(words), lines, word, maxWidth, fontSize, multiplier)
      ELSE FillLinesDropsLine(Tail(words), lines, testLine, maxWidth, fontSize, multiplier)

RECURSIVE FillLinesClosesAtBudget(_, _, _, _, _, _)
FillLinesClosesAtBudget(words, lines, currentLine, maxWidth, fontSize, multiplier) ==
  IF words = <<>> THEN
    IF currentLine # <<>> THEN Append(lines, currentLine) ELSE lines
  ELSE
    LET word == Head(words)
        testLine == IF currentLine # <<>> THEN currentLine \o <<" ">> \o word ELSE word
        estimatedWidth == Len(testLine) * fontSize * multiplier
    IN
    IF estimatedWidth >= maxWidth * 100 /\ currentLine # <<>>
      THEN FillLinesClosesAtBudget(Tail(words), Append(lines, currentLine), word,
                                   maxWidth, fontSize, multiplier)
      ELSE FillLinesClosesAtBudget(Tail(words), lines, testLine, maxWidth, fontSize, multiplier)

\* lines 130-140: the loop over the words
RECURSIVE FillLines(_, _, _, _, _, _)
FillLines(words, lines, currentLine, maxWidth, fontSize, multiplier) ==
  IF words = <<>> THEN
    IF currentLine # <<>> THEN Append(lines, currentLine) ELSE lines
  ELSE
    LET word == Head(words)
        testLine == IF currentLine # <<>> THEN currentLine \o <<" ">> \o word ELSE word
        estimatedWidth == Len(testLine) * fontSize * multiplier
    IN
    IF estimatedWidth > maxWidth * 100 /\ currentLine # <<>>
      THEN FillLines(Tail(words), Append(lines, currentLine), word, maxWidth, fontSize, multiplier)
      ELSE FillLines(Tail(words), lines, testLine, maxWidth, fontSize, multiplier)

wrapTextWithoutTrim(text, maxWidth, fontSize, fontFamily) ==
  IF text = <<>> THEN <<>>
  ELSE
    LET lines == FillLines(Split(text, <<>>), <<>>, <<>>, maxWidth, fontSize,
                           CharWidthMultiplier(fontFamily))
    IN IF Len(lines) > 0 THEN lines ELSE <<text>>

\* lines 105-147
wrapTextIntoLines(text, maxWidth, fontSize, fontFamily) ==
  IF text = <<>> \/ Trim(text) = <<>> THEN <<>>
  ELSE
    LET lines == FillLines(Split(text, <<>>), <<>>, <<>>, maxWidth, fontSize,
                           CharWidthMultiplier(fontFamily))
    IN IF Len(lines) > 0 THEN lines ELSE <<text>>

EscapeCharWithoutApostrophe(c) ==
  CASE c = "<" -> <<"&", "l", "t", ";">>
    [] c = ">" -> <<"&", "g", "t", ";">>
    [] c = "&" -> <<"&", "a", "m", "p", ";">>
    [] c = "\"" -> <<"&", "q", "u", "o", "t", ";">>
    [] OTHER -> <<c>>

\* lines 300-308
EscapeChar(c) ==
  CASE c = "<" -> <<"&", "l", "t", ";">>
    [] c = ">" -> <<"&", "g", "t", ";">>
    [] c = "&" -> <<"&", "a", "m", "p", ";">>
    [] c = "'" -> <<"&", "a", "p", "o", "s", ";">>
    [] c = "\"" -> <<"&", "q", "u", "o", "t", ";">>
    [] OTHER -> <<c>>

escapeXml(unsafe) == Concat([k \in 1..Len(unsafe) |-> EscapeChar(unsafe[k])])

\* The markup is a sequence of pieces: text of the template, a number, or
\* characters that come from the request (with the field they come from).
Template(text) == [src |-> "template", lit |-> text, chars |-> <<>>, num |-> <<>>]
Number(numerator, denominator) ==
  [src |-> "number", lit |-> "", chars |-> <<>>, num |-> <<numerator, denominator>>]
FromInput(field, chars) == [src |-> "input", lit |-> field, chars |-> chars, num |-> <<>>]

Given(opt) == opt # <<>> /\ opt[1] # 0

\* lines 195-208
FontFamilyCSS(fontFamily) ==
  CASE fontFamily = "Helvetica" -> "Helvetica, Arial, sans-serif"
    [] fontFamily = "Roboto" -> "Roboto, Arial, sans-serif"
    [] fontFamily = "Open Sans" -> "Open Sans, Arial, sans-serif"
    [] fontFamily = "Montserrat" -> "Montserrat, Arial, sans-serif"
    [] fontFamily = "Bebas Neue" -> "Bebas Neue, Impact, Arial, sans-serif"
    [] fontFamily = "Impact" -> "Impact, Arial Black, sans-serif"
    [] fontFamily = "Futura" -> "Futura, Trebuchet MS, Arial, sans-serif"
    [] fontFamily = "Georgia" -> "Georgia, serif"
    [] fontFamily = "Times" -> "Times New Roman, Times, serif"
    [] OTHER -> "Arial, Helvetica, sans-serif"

\* lines 242-255: the first line as it is, each further line in a tspan
Tspans(field, lines, xPos, lineHeight) ==
  Concat([k \in 1..Len(lines) |->
    IF k = 1 THEN <<FromInput(field, escapeXml(lines[k]))>>
    ELSE <<Template("<tspan x=\""), xPos, Template("\" dy=\""), lineHeight, Template("\">"),
           FromInput(field, escapeXml(lines[k])), Template("</tspan>")>>])

\* lines 266-275 and 279-288
TextElement(xPos, yPos, textAnchor, fontFamilyCSS, fontSize, weight, textColor, tspans) ==
  <<Template("<text x=\""), xPos, Template("\" y=\""), yPos,
    Template("\" text-anchor=\""), Template(textAnchor),
    Template("\" font-family=\""), Template(fontFamilyCSS),
    Template("\" font-size=\""), Number(fontSize, 1),
    Template("\" font-weight=\""), Template(weight),
    Template("\" fill=\""), textColor,
    Template("\" stroke=\"rgba(0,0,0,0.4)\" paint-order=\"stroke fill\" filter=\"url(#shadow)\">")>>
  \o tspans \o <<Template("</text>")>>

createTextSVG(p) ==
  LET calculatedTitleSize ==
        IF Given(p.titleSize) THEN p.titleSize[1] ELSE (p.width * 55) \div 1000
      calculatedSubtitleSize ==
        IF Given(p.subtitleSize) THEN p.subtitleSize[1] ELSE (p.width * 33) \div 1000
      padding == (p.width * 5) \div 100
      defaultMaxTextWidth == p.width - (padding * 2)
      titleMaxWidth == IF Given(p.maxTitleWidth) THEN p.maxTitleWidth[1] ELSE defaultMaxTextWidth
      subtitleMaxWidth ==
        IF Given(p.maxSubtitleWidth) THEN p.maxSubtitleWidth[1] ELSE defaultMaxTextWidth
      hasTitle == p.title # <<>> /\ Trim(p.title) # <<>>
      hasSubtitle == p.subtitle # <<>> /\ Trim(p.subtitle) # <<>>
      titleXPos == IF p.titleX # <<>> THEN Number(p.titleX[1], 1) ELSE Number(p.width, 2)
      subtitleXPos == IF p.subtitleX # <<>> THEN Number(p.subtitleX[1], 1) ELSE Number(p.width, 2)
      textAnchor == IF p.textAlign = "left" THEN "start"
                    ELSE IF p.textAlign = "right" THEN "end" ELSE "middle"
      titleLines ==
        IF hasTitle THEN wrapTextIntoLines(p.title, titleMaxWidth, calculatedTitleSize, p.fontFamily)
        ELSE <<>>
      subtitleLines ==
        IF hasSubtitle
          THEN wrapTextIntoLines(p.subtitle, subtitleMaxWidth, calculatedSubtitleSize, p.fontFamily)
          ELSE <<>>
      titleLineHeight == Number(calculatedTitleSize * 12, 10)
      subtitleLineHeight == Number(calculatedSubtitleSize * 13, 10)
      finalTitleY ==
        IF p.titleY # <<>> THEN Number(p.titleY[1], 1)
        ELSE IF hasTitle /\ hasSubtitle THEN Number(p.height * 35, 100) ELSE Number(p.height, 2)
      finalSubtitleY ==
        IF p.subtitleY # <<>> THEN Number(p.subtitleY[1], 1)
        ELSE IF hasTitle /\ hasSubtitle THEN Number(p.height * 65, 100) ELSE Number(p.height, 2)
      open == <<Template("<svg width=\""), Number(p.width, 1), Template("\" height=\""),
                Number(p.height, 1)>>
  IN
  IF ~hasTitle /\ ~hasSubtitle THEN open \o <<Template("\"></svg>")>>
  ELSE
    open
    \o <<Template("\" xmlns=\"http://www.w3.org/2000/svg\"><defs><filter id=\"shadow\">...</filter></defs>")>>
    \o (IF hasTitle /\ Len(titleLines) > 0
          THEN TextElement(titleXPos, finalTitleY, textAnchor, FontFamilyCSS(p.fontFamily),
                           calculatedTitleSize, "bold", p.textColor,
                           Tspans("title", titleLines, titleXPos, titleLineHeight))
          ELSE <<>>)
    \o (IF hasSubtitle /\ Len(subtitleLines) > 0
          THEN TextElement(subtitleXPos, finalSubtitleY, textAnchor, FontFamilyCSS(p.fontFamily),
                           calculatedSubtitleSize, "normal", p.textColor,
                           Tspans("subtitle", subtitleLines, subtitleXPos, subtitleLineHeight))
          ELSE <<>>)
    \o <<Template("</svg>")>>

\* The slides given to the composer.  A field that the slide does not have
\* is the empty text, or <<>> for a number.
TextAlphabet == {"a", " ", "<", ">", "&", "'", "\""}

SlideSpecs ==
  [title : SeqsUpTo(TextAlphabet, MaxTextLen),
   subtitle : {<<>>, <<"b">>, <<"<", "b">>},
   textColor : {<<>>, <<"r", "e", "d">>, <<"\"", ">">>},
   fontFamily : {"", "Impact", "Papyrus"},
   titleSize : {<<>>}, subtitleSize : {<<>>},
   titleX : {<<>>}, titleY : {<<>>}, subtitleX : {<<>>, <<100>>}, subtitleY : {<<>>},
   maxTitleWidth : {<<>>, <<60>>}, maxSubtitleWidth : {<<>>},
   textAlign : {"", "left"}]

\* line 329-330
HasText(slide) ==
  (slide.title # <<>> /\ Trim(slide.title) # <<>>)
  \/ (slide.subtitle # <<>> /\ Trim(slide.subtitle) # <<>>)

\* lines 335-351: the defaults generateSlide fills in
OverlayArguments(slide, width, height) ==
  [title |-> slide.title, subtitle |-> slide.subtitle,
   textColor |-> IF slide.textColor # <<>> THEN FromInput("textColor", slide.textColor)
                 ELSE Template("#FFFFFF"),
   fontFamily |-> IF slide.fontFamily # "" THEN slide.fontFamily ELSE "Arial",
   width |-> width, height |-> height,
   titleSize |-> slide.titleSize, subtitleSize |-> slide.subtitleSize,
   titleX |-> slide.titleX, titleY |-> slide.titleY,
   subtitleX |-> slide.subtitleX, subtitleY |-> slide.subtitleY,
   maxTitleWidth |-> slide.maxTitleWidth, maxSubtitleWidth |-> slide.maxSubtitleWidth,
   textAlign |-> IF slide.textAlign # "" THEN slide.textAlign ELSE "center"]

NotComposed == [pc |-> "idle", slide |-> <<>>, called |-> FALSE, svg |-> <<>>]

\* lines 329-351: generateSlide builds the overlay of a slide that has text
OverlayComposed ==
  /\ ov.pc = "idle"
  /\ \E slide \in SlideSpecs :
       ov' = [pc |-> "done", slide |-> slide, called |-> HasText(slide),
              svg |-> IF HasText(slide)
                        THEN createTextSVG(OverlayArguments(slide, 1080, 1080))
                        ELSE <<>>]
  /\ UNCHANGED <<now, rateLimitCache, inv, win, dl, wr, es>>

NextSvg == OverlayComposed

---------------------------------------------------------------------------
(* The text wrapper and the escaper on their own: one call of each, for    *)
(* every argument of a bounded set.                                        *)

WrapAlphabet == {"a", "b", " "}

\* maxWidth in pixels: nothing fits; less than one character; widths that
\* some line meets exactly; everything fits
WrapWidths == {0, 5, 11, 16, 33, 1000}

WrapFontSizes == {10, 20}

\* a family of each multiplier, and one the table does not have
WrapFamilies == {"Arial", "Impact", "Times", "Papyrus"}

NotWrapped ==
  [pc |-> "idle", text |-> <<>>, maxWidth |-> 0, fontSize |-> 0, fontFamily |-> "",
   lines |-> <<>>]

\* lines 105-147
TextWrapped ==
  /\ wr.pc = "idle"
  /\ \E text \in SeqsUpTo(WrapAlphabet, MaxWrapLen), maxWidth \in WrapWidths,
        fontSize \in WrapFontSizes, fontFamily \in WrapFamilies :
       wr' = [pc |-> "done", text |-> text, maxWidth |-> maxWidth, fontSize |-> fontSize,
              fontFamily |-> fontFamily,
              lines |-> wrapTextIntoLines(text, maxWidth, fontSize, fontFamily)]
  /\ UNCHANGED <<now, rateLimitCache, inv, win, dl, ov, es>>

NextWrap == TextWrapped

NotEscaped == [pc |-> "idle", unsafe |-> <<>>, once |-> <<>>, twice |-> <<>>]

\* lines 298-309, applied to a text and then to its own result
TextEscaped ==
  /\ es.pc = "idle"
  /\ \E unsafe \in SeqsUpTo(TextAlphabet, MaxTextLen) :
       es' = [pc |-> "done", unsafe |-> unsafe, once |-> escapeXml(unsafe),
              twice |-> escapeXml(escapeXml(unsafe))]
  /\ UNCHANGED <<now, rateLimitCache, inv, win, dl, ov, wr>>

NextEscape == TextEscaped

---------------------------------------------------------------------------
(* The handler (exports.handler, lines 435-661).  JavaScript runs each     *)
(* stretch of code between two awaits without interruption, so one action  *)
(* is one such stretch: from the call to the await of the slide jobs, from *)
(* there to the await of the uploads, and from there to the return.        *)

NoAdmission == [checked |-> FALSE, client |-> "", ord |-> 0, late |-> FALSE, stored |-> 0]

Idle ==
  [pc |-> "idle", event |-> DefaultEvent, jobs |-> <<>>, order |-> <<>>,
   results |-> <<>>, uploads |-> <<>>, response |-> NoResponse, adm |-> NoAdmission]

Returned(e, adm, response) ==
  [Idle EXCEPT !.pc = "returned", !.event = e, !.adm = adm, !.response = response]

RateLimitedOffByOne(requestCount) == requestCount > RATE_LIMIT

\* line 464
RateLimited(requestCount) == requestCount >= RATE_LIMIT

ValidationErrorNoMaxHeight(e) ==
  IF ~e.bgIsArray \/ e.bgLen = 0
    THEN "backgrounds array is required and must not be empty"
  ELSE IF ~e.slIsArray \/ Len(e.slides) = 0
    THEN "slides array is required and must not be empty"
  ELSE IF e.bgLen # Len(e.slides)
    THEN "backgrounds and slides arrays must have the same length"
  ELSE IF e.width < MinDimension \/ e.width > MaxDimension \/ e.height < MinDimension
    THEN "Width and height must be between 200 and 4000 pixels"
  ELSE ""

\* lines 487-519: the message of the first check that fails, "" if none does
ValidationError(e) ==
  IF ~e.bgIsArray \/ e.bgLen = 0
    THEN "backgrounds array is required and must not be empty"
  ELSE IF ~e.slIsArray \/ Len(e.slides) = 0
    THEN "slides array is required and must not be empty"
  ELSE IF e.bgLen # Len(e.slides)
    THEN "backgrounds and slides arrays must have the same length"
  ELSE IF e.width < MinDimension \/ e.width > MaxDimension
          \/ e.height < MinDimension \/ e.height > MaxDimension
    THEN "Width and height must be between 200 and 4000 pixels"
  ELSE ""

\* lines 475-531, after the rate check has let the request pass
Admitted(e, adm) ==
  IF e.parse = "throws" THEN Returned(e, adm, InternalError("Unexpected token"))
  ELSE IF ValidationError(e) # "" THEN Returned(e, adm, ErrorResponse(400, ValidationError(e)))
  ELSE [Idle EXCEPT !.pc = "slides", !.event = e, !.adm = adm,
                    !.jobs = [k \in 1..e.bgLen |-> StartedJob(e.slides[k])]]

\* history: the life of the counter entry of a client.  n counts the POST
\* requests that reached the rate check since the entry was created (it
\* stops counting at RATE_LIMIT + 2), admitted those of them that passed
\* it, first is the time the entry was created.
Seen(w, found, passed, clock) ==
  LET life == IF found THEN w ELSE [n |-> 0, first |-> clock, admitted |-> 0] IN
  [life EXCEPT !.n = IF @ < RATE_LIMIT + 2 THEN @ + 1 ELSE @,
               !.admitted = IF passed THEN @ + 1 ELSE @]

CountToStoreRestarts(requestCount) == 1

\* line 472: the value written back
CountToStore(requestCount) == requestCount + 1

ConsumeQuotaIfValid(cache, e, clientIP, requestCount, clock) ==
  IF e.parse = "throws" \/ ValidationError(e) # "" THEN cache
  ELSE NodeCacheSet(cache, clientIP, CountToStore(requestCount), clock)

\* line 472, before the body is parsed: the table after the request passed
\* the rate check
ConsumeQuota(cache, e, clientIP, requestCount, clock) ==
  NodeCacheSet(cache, clientIP, CountToStore(requestCount), clock)

\* lines 435-531: the handler from its call to its first await or return
Handle(i, e) ==
  /\ inv[i].pc = "idle"
  /\ UNCHANGED <<now, ov, wr, es>>
  /\ IF e.httpMethod = "OPTIONS" THEN
       /\ inv' = [inv EXCEPT ![i] = Returned(e, NoAdmission, PreflightResponse)]
       /\ UNCHANGED <<rateLimitCache, win>>
     ELSE IF e.httpMethod # "POST" THEN
       /\ inv' = [inv EXCEPT ![i] =
                    Returned(e, NoAdmission, ErrorResponse(405, "Method not allowed. Use POST."))]
       /\ UNCHANGED <<rateLimitCache, win>>
     ELSE
       LET clientIP == ClientIP(e)
           got == NodeCacheGet(rateLimitCache, clientIP, now)
           requestCount == IF got.found /\ got.value # 0 THEN got.value ELSE 0
           late == win[clientIP].n > 0 /\ now > win[clientIP].first + stdTTL
           seen == Seen(win[clientIP], got.found, ~RateLimited(requestCount), now)
           adm == [checked |-> TRUE, client |-> clientIP, ord |-> seen.n, late |-> late,
                   stored |-> IF RateLimited(requestCount) THEN 0
                              ELSE CountToStore(requestCount)]
       IN
       /\ win' = [win EXCEPT ![clientIP] = seen]
       /\ IF RateLimited(requestCount) THEN
            /\ inv' = [inv EXCEPT ![i] =
                 Returned(e, adm,
                   ErrorResponse(429, "Rate limit exceeded. Maximum 10 requests per minute."))]
            /\ UNCHANGED rateLimitCache
          ELSE
            /\ rateLimitCache' = ConsumeQuota(rateLimitCache, e, clientIP, requestCount, now)
            /\ inv' = [inv EXCEPT ![i] = Admitted(e, adm)]

\* the handler called, the downloads of its slide jobs not followed
Invoke(i, e) == Handle(i, e) /\ UNCHANGED dl

---------------------------------------------------------------------------
(* generateSlide (lines 314-383), one job per index, from await to await *)

\* line 317: downloadImage settles
AfterDownload(job, index, outcome) ==
  IF outcome = "ok" THEN {[job EXCEPT !.pc = "resize"]}
  ELSE {CatchSlideError(job, index, outcome)}

\* lines 320-365: the resize settles; then slide.title is read, and either
\* the overlay is built and the composite started, or the slide is done
AfterResize(job, index, outcome) ==
  IF outcome # "ok" THEN {CatchSlideError(job, index, outcome)}
  ELSE IF job.slide = "null" THEN {CatchSlideError(job, index, NullSlideError)}
  ELSE IF job.slide = "text" THEN {[job EXCEPT !.pc = "composite"]}
  ELSE {ReturnSlide(job, index, bytes) : bytes \in ImageBytes}

\* lines 354-374: the composite settles
AfterComposite(job, index, outcome) ==
  IF outcome # "ok" THEN {CatchSlideError(job, index, outcome)}
  ELSE {ReturnSlide(job, index, bytes) : bytes \in ImageBytes}

SlideStep(i, k, job) ==
  inv' = [inv EXCEPT ![i].jobs[k] = job,
                     ![i].order = IF Settled(job) THEN Append(@, k) ELSE @]

DownloadSettles(i, k) ==
  /\ inv[i].pc = "slides"
  /\ k \in 1..Len(inv[i].jobs)
  /\ inv[i].jobs[k].pc = "downloadImage"
  /\ \E outcome \in {"ok"} \cup DownloadErrors :
       \E job \in AfterDownload(inv[i].jobs[k], k - 1, outcome) : SlideStep(i, k, job)
  /\ UNCHANGED <<now, rateLimitCache, win, dl, ov, wr, es>>

ResizeSettles(i, k) ==
  /\ inv[i].pc = "slides"
  /\ k \in 1..Len(inv[i].jobs)
  /\ inv[i].jobs[k].pc = "resize"
  /\ \E outcome \in {"ok"} \cup ResizeErrors :
       \E job \in AfterResize(inv[i].jobs[k], k - 1, outcome) : SlideStep(i, k, job)
  /\ UNCHANGED <<now, rateLimitCache, win, dl, ov, wr, es>>

CompositeSettles(i, k) ==
  /\ inv[i].pc = "slides"
  /\ k \in 1..Len(inv[i].jobs)
  /\ inv[i].jobs[k].pc = "composite"
  /\ \E outcome \in {"ok"} \cup CompositeErrors :
       \E job \in AfterComposite(inv[i].jobs[k], k - 1, outcome) : SlideStep(i, k, job)
  /\ UNCHANGED <<now, rateLimitCache, win, dl, ov, wr, es>>

---------------------------------------------------------------------------
(* The handler after the slides (lines 533-552) and after the uploads *)

PromiseAllByCompletion(jobs, order) ==
  [k \in 1..Len(jobs) |-> IF k <= Len(order) THEN jobs[order[k]].result ELSE jobs[k].result]

\* Promise.all(slidePromises), line 533: the values of the promises in the
\* order of the array, whatever the order they settled in
PromiseAll(jobs, order) == [k \in 1..Len(jobs) |-> jobs[k].result]

ShouldUploadWithoutToken(e, successfulSlides) ==
  e.uploadToDrive /\ Len(successfulSlides) > 0

\* line 542
ShouldUpload(e, successfulSlides) ==
  e.uploadToDrive /\ e.driveToken /\ Len(successfulSlides) > 0

SlidesJoined(i) ==
  /\ inv[i].pc = "slides"
  /\ \/ \A k \in 1..Len(inv[i].jobs) : Settled(inv[i].jobs[k])
     \/ \E k \in 1..Len(inv[i].jobs) : inv[i].jobs[k].pc = "threw"
  /\ LET e == inv[i].event
         results == PromiseAll(inv[i].jobs, inv[i].order)
         successfulSlides == SuccessfulSlides(results)
     IN
     IF \E k \in 1..Len(inv[i].jobs) : inv[i].jobs[k].pc = "threw" THEN
       inv' = [inv EXCEPT ![i].pc = "returned",
                          ![i].response = InternalError("slide job rejected")]
     ELSE IF ShouldUpload(e, successfulSlides) THEN
       inv' = [inv EXCEPT ![i].pc = "uploads", ![i].results = results,
                 ![i].uploads = [u \in 1..Len(successfulSlides) |->
                                   UploadPending(successfulSlides[u].filename)]]
     ELSE
       inv' = [inv EXCEPT ![i].pc = "returned", ![i].results = results,
                          ![i].response = Assemble(e, results, <<>>)]
  /\ UNCHANGED <<now, rateLimitCache, win, dl, ov, wr, es>>

\* lines 408-428: the file store answers, or the call throws and is caught
UploadSettles(i, u) ==
  /\ inv[i].pc = "uploads"
  /\ u \in 1..Len(inv[i].uploads)
  /\ inv[i].uploads[u].pc = "create"
  /\ \E outcome \in {"ok"} \cup UploadErrors :
       inv' = [inv EXCEPT ![i].uploads[u] =
                 IF outcome = "ok" THEN UploadOk(@.file) ELSE UploadError(@.file, outcome)]
  /\ UNCHANGED <<now, rateLimitCache, win, dl, ov, wr, es>>

UploadsJoinedAtFirst(i) ==
  /\ inv[i].pc = "uploads"
  /\ \E u \in 1..Len(inv[i].uploads) : inv[i].uploads[u].pc = "returned"
  /\ inv' = [inv EXCEPT ![i].pc = "returned",
               ![i].response = Assemble(inv[i].event, inv[i].results, Map(DriveUrl, inv[i].uploads))]
  /\ UNCHANGED <<now, rateLimitCache, win, dl, ov, wr, es>>

\* lines 551-644
UploadsJoined(i) ==
  /\ inv[i].pc = "uploads"
  /\ \A u \in 1..Len(inv[i].uploads) : inv[i].uploads[u].pc = "returned"
  /\ inv' = [inv EXCEPT ![i].pc = "returned",
               ![i].response = Assemble(inv[i].event, inv[i].results, Map(DriveUrl, inv[i].uploads))]
  /\ UNCHANGED <<now, rateLimitCache, win, dl, ov, wr, es>>

---------------------------------------------------------------------------
(* The batch specification: one invocation of the handler, from the call  *)
(* to its return, for requests of every shape.                            *)

Init ==
  /\ now = 0
  /\ rateLimitCache = [c \in Clients |-> NoEntry]
  /\ inv = [i \in Slots |-> Idle]
  /\ win = [c \in Clients |-> [n |-> 0, first |-> 0, admitted |-> 0]]
  /\ dl = NotCalled
  /\ ov = NotComposed
  /\ wr = NotWrapped
  /\ es = NotEscaped

Request(i) == inv[i].pc = "idle" /\ \E e \in BatchEvents : Invoke(i, e)

Next ==
  \E i \in Slots :
    \/ Request(i)
    \/ \E k \in 1..MaxSlides : DownloadSettles(i, k)
    \/ \E k \in 1..MaxSlides : ResizeSettles(i, k)
    \/ \E k \in 1..MaxSlides : CompositeSettles(i, k)
    \/ SlidesJoined(i)
    \/ \E u \in 1..MaxSlides : UploadSettles(i, u)
    \/ UploadsJoined(i)

Spec == Init /\ [][Next]_vars

SpecFetch == Init /\ [][NextFetch]_vars

SpecSvg == Init /\ [][NextSvg]_vars

SpecWrap == Init /\ [][NextWrap]_vars

SpecEscape == Init /\ [][NextEscape]_vars

---------------------------------------------------------------------------
(* The rate-limit specification: requests of two clients one after the     *)
(* other, while time passes.                                               *)

\* POST bodies: one that does not parse, one that fails the validation, one
\* valid request of a single slide without text
RateBodies ==
  {[DefaultEvent EXCEPT !.parse = "throws"],
   DefaultEvent,
   [DefaultEvent EXCEPT !.bgLen = 1, !.slides = <<"plain">>]}

\* (x-forwarded-for, client-ip)
RateHeaders == {<<"X", "">>, <<"", "X">>, <<"", "">>}

RateEvents ==
  {[DefaultEvent EXCEPT !.httpMethod = m] : m \in {"OPTIONS", "GET"}}
  \cup {[b EXCEPT !.xff = h[1], !.cip = h[2]] : b \in RateBodies, h \in RateHeaders}

RateRequest(i) == inv[i].pc = "idle" /\ \E e \in RateEvents : Invoke(i, e)

\* the promise of the handler resolved: the invocation is over
Collect(i) ==
  /\ inv[i].pc = "returned"
  /\ inv' = [inv EXCEPT ![i] = Idle]
  /\ UNCHANGED <<now, rateLimitCache, win, dl, ov, wr, es>>

Tick ==
  /\ now + TickStep <= MaxTime
  /\ now' = now + TickStep
  /\ UNCHANGED <<rateLimitCache, inv, win, dl, ov, wr, es>>

NextRate ==
  \/ Tick
  \/ \E i \in Slots :
       \/ RateRequest(i)
       \/ \E k \in 1..MaxSlides : DownloadSettles(i, k)
       \/ \E k \in 1..MaxSlides : ResizeSettles(i, k)
       \/ SlidesJoined(i)
       \/ Collect(i)

SpecRate == Init /\ [][NextRate]_vars

---------------------------------------------------------------------------
(* The concurrency specification: two invocations of the handler for the   *)
(* same client in one process, each suspended at its awaits while the      *)
(* other runs, and the clock.                                              *)

ConcSlots == {1, 2}

\* POST requests of client X: one that fails the validation, one valid
\* request of a single slide without text
ConcEvents == {DefaultEvent, [DefaultEvent EXCEPT !.bgLen = 1, !.slides = <<"plain">>]}

InitConc ==
  /\ now = 0
  /\ rateLimitCache = [c \in Clients |-> NoEntry]
  /\ inv = [i \in ConcSlots |-> Idle]
  /\ win = [c \in Clients |-> [n |-> 0, first |-> 0, admitted |-> 0]]
  /\ dl = NotCalled
  /\ ov = NotComposed
  /\ wr = NotWrapped
  /\ es = NotEscaped

ConcRequest(i) == inv[i].pc = "idle" /\ \E e \in ConcEvents : Invoke(i, e)

NextConc ==
  \/ Tick
  \/ \E i \in ConcSlots :
       \/ ConcRequest(i)
       \/ DownloadSettles(i, 1)
       \/ ResizeSettles(i, 1)
       \/ SlidesJoined(i)
       \/ Collect(i)

SpecConc == InitConc /\ [][NextConc]_vars

---------------------------------------------------------------------------
(* The termination specification: one request, the download of its first   *)
(* slide followed request by request through downloadImage, every other    *)
(* step as in the batch specification.  A request that is waiting gets its *)
(* response, its error or its timeout; a body that is read ends; sharp and *)
(* the file store answer; a continuation that can run does run.            *)

\* a request that fails the validation; one slide with text, uploaded and
\* answered with URLs; two slides, the second of which is null
LiveEvents ==
  {DefaultEvent,
   [DefaultEvent EXCEPT !.bgLen = 1, !.slides = <<"text">>, !.uploadToDrive = TRUE,
                        !.driveToken = TRUE, !.returnUrls = TRUE],
   [DefaultEvent EXCEPT !.bgLen = 2, !.slides = <<"plain", "null">>]}

\* line 317 of the first job: the call of downloadImage is part of the
\* stretch that starts the jobs
LiveRequest(i) ==
  /\ inv[i].pc = "idle"
  /\ \E e \in LiveEvents, url \in {"url", "malformed"} :
       /\ Handle(i, e)
       /\ dl' = IF inv'[i].pc = "slides" THEN Call(dl, url, 0) ELSE dl

\* line 317 of the first job: the promise of downloadImage has settled
DownloadCompletes(i) ==
  /\ inv[i].pc = "slides"
  /\ inv[i].jobs[1].pc = "downloadImage"
  /\ dl.pc = "settled"
  /\ \E job \in AfterDownload(inv[i].jobs[1], 0,
                              IF dl.outcome.state = "resolved" THEN "ok" ELSE dl.outcome.error) :
       SlideStep(i, 1, job)
  /\ UNCHANGED <<now, rateLimitCache, win, dl, ov, wr, es>>

NetworkAnswers == ResponseArrives \/ BodyEnds \/ TransportFails \/ TimesOut

Continues ==
  \E i \in Slots :
    \/ DownloadCompletes(i)
    \/ \E k \in 2..MaxSlides : DownloadSettles(i, k)
    \/ \E k \in 1..MaxSlides : ResizeSettles(i, k)
    \/ \E k \in 1..MaxSlides : CompositeSettles(i, k)
    \/ SlidesJoined(i)
    \/ \E u \in 1..MaxSlides : UploadSettles(i, u)
    \/ UploadsJoined(i)

NextLive ==
  \/ \E i \in Slots : LiveRequest(i)
  \/ NetworkAnswers
  \/ DataArrives
  \/ ErrorAfterDestroy
  \/ Continues

SpecLive == Init /\ [][NextLive]_vars /\ WF_vars(NetworkAnswers) /\ WF_vars(Continues)

---------------------------------------------------------------------------
(* Properties of the batch specification *)

\* the invocations that got past the method check, the rate check, the
\* parse of the body and the validation, and have returned
Answered(i) == inv[i].pc = "returned" /\ inv[i].response.statusCode \in {200, 413}

SlideName(k) == <<"carousel-slide-", k, ".png">>

Names(entries) == {entries[j].filename : j \in 1..Len(entries)}

Increasing(entries) ==
  \A j1, j2 \in 1..Len(entries) : j1 < j2 => entries[j1].filename[2] < entries[j2].filename[2]

\* C3: for every valid request of N slides and every order in which the N
\* jobs complete, the handler holds one result per index, named
\* carousel-slide-{index+1}.png; each index is in exactly one of images and
\* failed, both lists are in increasing index order, and
\* stats.successful + stats.failed = stats.totalSlides = N.
C3_OneResultPerIndex ==
  \A i \in Slots :
    (Answered(i) /\ inv[i].event.httpMethod = "POST") =>
      LET N == Len(inv[i].event.slides)
          r == inv[i].response
      IN
      /\ Len(inv[i].results) = N
      /\ \A k \in 1..N : inv[i].results[k].filename = SlideName(k)
      /\ r.stats.totalSlides = N
      /\ r.stats.successful + r.stats.failed = N
      /\ r.statusCode = 200 =>
           /\ Len(r.images) = r.stats.successful
           /\ Len(r.failed) = r.stats.failed
           /\ Names(r.images) \cup Names(r.failed) = {SlideName(k) : k \in 1..N}
           /\ Names(r.images) \cap Names(r.failed) = {}
           /\ Increasing(r.images)
           /\ Increasing(r.failed)
           /\ \A j \in 1..Len(r.images) : r.images[j].success
           /\ \A j \in 1..Len(r.failed) : ~r.failed[j].success

\* the second job completed first, and both slides are in the response
C3_Witness ==
  \E i \in Slots :
    /\ Answered(i) /\ inv[i].response.statusCode = 200
    /\ inv[i].order = <<2, 1>>
    /\ Len(inv[i].response.images) = 2
    /\ inv[i].response.images[1].filename = SlideName(1)

ErrorsAt(pc) ==
  IF pc = "downloadImage" THEN DownloadErrors
  ELSE IF pc = "resize" THEN ResizeErrors \cup {NullSlideError}
  ELSE CompositeErrors

\* C4: whichever step of a slide job fails, the job returns a Failure with
\* the message of the error and its filename; no job rejects, the handler
\* never answers 500 to a valid request, and a step of one job leaves the
\* other jobs as they are, whose results reach the handler unchanged.
C4_NoJobRejects ==
  \A i \in Slots :
    /\ \A k \in 1..Len(inv[i].jobs) : inv[i].jobs[k].pc # "threw"
    /\ (inv[i].pc = "returned" /\ inv[i].event.httpMethod = "POST"
        /\ inv[i].event.parse = "ok" /\ inv[i].jobs # <<>>)
         => inv[i].response.statusCode # 500

C4_StepIsLocal ==
  \A i \in Slots : \A k \in 1..Len(inv[i].jobs) :
    /\ (inv[i].jobs[k] # inv'[i].jobs[k]) =>
         /\ \A j \in 1..Len(inv[i].jobs) : j # k => inv'[i].jobs[j] = inv[i].jobs[j]
         /\ (Settled(inv'[i].jobs[k]) /\ ~inv'[i].jobs[k].result.success) =>
              /\ inv'[i].jobs[k].pc = "returned"
              /\ inv'[i].jobs[k].result.error \in ErrorsAt(inv[i].jobs[k].pc)
              /\ inv'[i].jobs[k].result.filename = SlideName(k)
              /\ inv'[i].jobs[k].result.keys = {"success", "error", "filename"}
    /\ (inv[i].pc = "slides" /\ inv'[i].pc # "slides") =>
         /\ inv'[i].pc \in {"uploads", "returned"}
         /\ Len(inv'[i].results) = Len(inv[i].jobs)
         /\ inv'[i].results[k] = inv[i].jobs[k].result

C4_FailureIsolation == []C4_NoJobRejects /\ [][C4_StepIsLocal]_vars

\* the first slide failed in the download, the second is in the response
C4_Witness ==
  \E i \in Slots :
    /\ Answered(i) /\ inv[i].response.statusCode = 200
    /\ Len(inv[i].results) = 2
    /\ inv[i].results[1].error = "Network error"
    /\ inv[i].results[2].success
    /\ Len(inv[i].response.images) = 1
    /\ inv[i].response.images[1] = inv[i].results[2]
    /\ inv[i].response.failed = <<inv[i].results[1]>>

\* the request shapes that the validation is to refuse
BadShape(e) ==
  \/ ~e.bgIsArray \/ e.bgLen = 0
  \/ ~e.slIsArray \/ Len(e.slides) = 0
  \/ e.bgLen # Len(e.slides)
  \/ e.width < 200 \/ e.width > 4000
  \/ e.height < 200 \/ e.height > 4000

\* C5: a POST request that passed the rate check and whose body parsed, but
\* whose backgrounds or slides is not a non-empty array, or whose lengths
\* differ, or whose width or height is outside [200, 4000], is answered 400
\* with a single error string, and no slide job or upload was started.
C5_ValidationFailsFast ==
  \A i \in Slots :
    (inv[i].pc # "idle" /\ inv[i].event.httpMethod = "POST" /\ inv[i].adm.stored > 0
     /\ inv[i].event.parse = "ok" /\ BadShape(inv[i].event)) =>
      /\ inv[i].pc = "returned"
      /\ inv[i].response.statusCode = 400
      /\ inv[i].response.keys = {"error"}
      /\ inv[i].response.error # ""
      /\ inv[i].jobs = <<>> /\ inv[i].uploads = <<>> /\ inv[i].results = <<>>

\* two backgrounds, one slide
C5_Witness ==
  \E i \in Slots :
    /\ inv[i].pc = "returned" /\ inv[i].response.statusCode = 400
    /\ inv[i].event.bgIsArray /\ inv[i].event.slIsArray
    /\ inv[i].event.bgLen = 2 /\ Len(inv[i].event.slides) = 1
    /\ inv[i].response.error = "backgrounds and slides arrays must have the same length"

\* C7: no 200 response is longer than 6,000,000 bytes; whenever the
\* assembled success response is longer, the answer is 413 with
\* success = false, an error, a suggestion and the stats; and a 200 response
\* holds every successful slide, its image at full length.
C7_ResponseSizeCeiling ==
  \A i \in Slots :
    (Answered(i) /\ inv[i].event.httpMethod = "POST") =>
      LET r == inv[i].response
          assembled == SuccessBody(inv[i].event, inv[i].results, Map(DriveUrl, inv[i].uploads))
          good == SelectSeq(inv[i].results, LAMBDA x : x.success)
      IN
      /\ r.statusCode = 200 =>
           /\ ResponseBytes(r) <= 6000000
           /\ Len(r.images) = Len(good)
           /\ \A j \in 1..Len(good) :
                "base64" \in r.images[j].keys => r.images[j].base64 = good[j].base64
      /\ ResponseBytes(assembled) > 6000000 =>
           /\ r.statusCode = 413
           /\ r.keys = {"success", "error", "suggestion", "stats"}
           /\ ~r.success /\ r.error # ""
           /\ r.images = <<>>

\* two slides of 3,000,000 bytes each: 413
C7_Witness ==
  \E i \in Slots :
    /\ Answered(i) /\ inv[i].response.statusCode = 413
    /\ Len(inv[i].results) = 2
    /\ \A k \in 1..2 : inv[i].results[k].base64 = 3000000

\* C8: every response of the handler carries Access-Control-Allow-Origin.
C8_EveryResponseHasCors ==
  \A i \in Slots :
    inv[i].pc = "returned" => "Access-Control-Allow-Origin" \in inv[i].response.headers

\* C9: in a 200 response the images carry only filename and storage URL
\* exactly when returnUrls was set, uploads were made and every upload
\* succeeded; in every other case every image carries its base64 data URI.
C9_UrlOnlyMode ==
  \A i \in Slots :
    (Answered(i) /\ inv[i].response.statusCode = 200 /\ inv[i].event.httpMethod = "POST") =>
      LET r == inv[i].response
          good == SelectSeq(inv[i].results, LAMBDA x : x.success)
          allUploaded ==
            /\ inv[i].event.returnUrls
            /\ Len(inv[i].uploads) > 0
            /\ \A u \in 1..Len(inv[i].uploads) : inv[i].uploads[u].success
      IN
      /\ Len(r.images) = Len(good)
      /\ \A j \in 1..Len(r.images) :
           IF allUploaded
             THEN r.images[j].keys = {"filename", "success", "driveUrl"}
                  /\ r.images[j].filename = good[j].filename
             ELSE r.images[j].keys = {"base64", "filename", "success"}
                  /\ r.images[j] = good[j]

\* returnUrls, two uploads, both succeeded: two entries without base64
C9_Witness ==
  \E i \in Slots :
    /\ Answered(i) /\ inv[i].response.statusCode = 200
    /\ inv[i].event.returnUrls
    /\ Len(inv[i].uploads) = 2
    /\ \A u \in 1..2 : inv[i].uploads[u].success
    /\ Len(inv[i].response.images) = 2
    /\ "base64" \notin inv[i].response.images[1].keys

---------------------------------------------------------------------------
(* Properties of the rate-limit specification *)

\* C1: in the life of a client's counter entry (its admission window) the
\* first 10 POST requests of the client pass the rate check, the 10th
\* included, and the 11th and every later one is answered 429.
C1_RateLimitThreshold ==
  \A i \in Slots :
    inv[i].adm.checked =>
      /\ inv[i].adm.ord <= 10 =>
           /\ inv[i].adm.stored > 0
           /\ ~(inv[i].pc = "returned" /\ inv[i].response.statusCode = 429)
      /\ inv[i].adm.ord >= 11 =>
           /\ inv[i].pc = "returned"
           /\ inv[i].response.statusCode = 429
           /\ inv[i].response.keys = {"error"}
           /\ inv[i].adm.stored = 0

\* the 11th request of a client within 60 seconds of its first: 429
C1_Witness ==
  \E i \in Slots :
    /\ inv[i].pc = "returned" /\ inv[i].response.statusCode = 429
    /\ inv[i].adm.ord = 11
    /\ now <= win[inv[i].adm.client].first + 60

\* C2: a request that a client sends more than 60 seconds after its first
\* admitted request of the window is admitted with a fresh count.
C2_FixedWindowFromFirstUse ==
  \A i \in Slots :
    (inv[i].adm.checked /\ inv[i].adm.late) => inv[i].adm.stored = 1

---------------------------------------------------------------------------
(* Properties of the download specification *)

GoodImage(response) ==
  response.statusCode = 200 /\ response.contentType \in {"", "image/png"}

\* C6: a chain of k redirect hops that ends in a 200 image response with a
\* non-empty body succeeds with the bytes when k <= 10; with more than 10
\* hops the download fails with the too-many-redirects error, and only
\* then.
C6_RedirectBound ==
  /\ (dl.pc = "settled" /\ ~dl.fault /\ GoodImage(dl.last) /\ dl.chunks # <<>>) =>
       /\ dl.hops <= 10
       /\ dl.outcome = Resolved(dl.received)
  /\ dl.hops > 10 =>
       /\ dl.pc = "settled"
       /\ dl.outcome = Rejected(TooManyRedirectsError)
       /\ dl.hops = 11 /\ dl.attempts = 11
  /\ dl.outcome.error = TooManyRedirectsError => dl.hops > 10
  /\ dl.outcome.state = "resolved" => dl.hops <= 10

\* ten hops, then the image
C6_Witness ==
  /\ dl.pc = "settled" /\ dl.hops = 10 /\ dl.attempts = 11
  /\ dl.chunks = << <<"a">>, <<"b", "c">> >>
  /\ dl.outcome.state = "resolved" /\ dl.outcome.value = <<"a", "b", "c">>

---------------------------------------------------------------------------
(* Properties of the overlay specification *)

Entities ==
  {<<"&", "l", "t", ";">>, <<"&", "g", "t", ";">>, <<"&", "a", "m", "p", ";">>,
   <<"&", "a", "p", "o", "s", ";">>, <<"&", "q", "u", "o", "t", ";">>}

\* no reserved character stands in s but as the start of one of the five entities
RECURSIVE WellEscaped(_)
WellEscaped(s) ==
  IF s = <<>> THEN TRUE
  ELSE IF Head(s) \in {"<", ">", "'", "\""} THEN FALSE
  ELSE IF Head(s) = "&" THEN
    \E ent \in Entities :
      /\ Len(s) >= Len(ent)
      /\ SubSeq(s, 1, Len(ent)) = ent
      /\ WellEscaped(SubSeq(s, Len(ent) + 1, Len(s)))
  ELSE WellEscaped(Tail(s))

\* C10: every string of the slide that createTextSVG puts into the markup
\* went through escapeXml: no piece of the markup that comes from the
\* request holds a reserved character unescaped.
C10_InputIsEscaped ==
  ov.pc = "done" =>
    \A k \in 1..Len(ov.svg) : ov.svg[k].src = "input" => WellEscaped(ov.svg[k].chars)

---------------------------------------------------------------------------
(* Properties of the text wrapper *)

\* the non-empty words of a text, in order
RECURSIVE WordsOf(_, _)
WordsOf(s, word) ==
  IF s = <<>> THEN (IF word = <<>> THEN <<>> ELSE <<word>>)
  ELSE IF Head(s) = " " THEN (IF word = <<>> THEN <<>> ELSE <<word>>) \o WordsOf(Tail(s), <<>>)
  ELSE WordsOf(Tail(s), Append(word, Head(s)))

\* characterCount x fontSize x multiplier, in hundredths of a pixel
EstimatedWidth(n) == n * wr.fontSize * CharWidthMultiplier(wr.fontFamily)

Budget == wr.maxWidth * 100

\* C11: the non-empty words of the text stand whole, once each and in the
\* order of the text across the returned lines, and a word whose estimated
\* width exceeds maxWidth is a line of its own.
C11_WordsPreserved ==
  wr.pc = "done" =>
    /\ Concat([k \in 1..Len(wr.lines) |-> WordsOf(wr.lines[k], <<>>)]) = WordsOf(wr.text, <<>>)
    /\ \A k \in 1..Len(wr.lines) :
         LET words == WordsOf(wr.lines[k], <<>>) IN
         \A j \in 1..Len(words) :
           EstimatedWidth(Len(words[j])) > Budget => wr.lines[k] = words[j]

\* "aa b" at a budget of one character: the wide word alone, then the next
C11_Witness ==
  /\ wr.pc = "done"
  /\ wr.text = <<"a", "a", " ", "b">> /\ wr.maxWidth = 11 /\ wr.fontSize = 20
  /\ wr.fontFamily = "Arial"
  /\ wr.lines = << <<"a", "a">>, <<"b">> >>

Blank(text) == \A k \in 1..Len(text) : text[k] = " "

C20_GreedyFitsBudget ==
  wr.pc = "done" =>
    /\ \A k \in 1..Len(wr.lines) :
         /\ wr.lines[k] # <<>>
         /\ Len(WordsOf(wr.lines[k], <<>>)) > 1 => EstimatedWidth(Len(wr.lines[k])) <= Budget
    /\ \A k \in 1..(Len(wr.lines) - 1) :
         LET next == WordsOf(wr.lines[k + 1], <<>>) IN
         /\ next # <<>>
         /\ EstimatedWidth(Len(wr.lines[k]) + 1 + Len(next[1])) > Budget

\* "a b a" where "a b" meets the budget exactly: two words, then a new line
C20_Witness ==
  /\ wr.pc = "done"
  /\ wr.text = <<"a", " ", "b", " ", "a">> /\ wr.maxWidth = 33 /\ wr.fontSize = 20
  /\ wr.fontFamily = "Arial"
  /\ wr.lines = << <<"a", " ", "b">>, <<"a">> >>

---------------------------------------------------------------------------
(* Properties of the escaper *)

Reserved == {"<", ">", "&", "'", "\""}

HasReserved(s) == \E k \in 1..Len(s) : s[k] \in Reserved

\* C13 as stated: escaping the escaped text changes nothing, and a text
\* without reserved characters is its own escaped text.
C13_EscapeIdempotent ==
  es.pc = "done" =>
    /\ es.twice = es.once
    /\ ~HasReserved(es.unsafe) => es.once = es.unsafe

\* C13 amended: a text without reserved characters is its own escaped text,
\* and escaping it again changes nothing; the escaped text of a text with a
\* reserved character holds no reserved character but the ampersand that
\* opens one of the five entities, and escaping it again changes it.
C13_EscapeOnce ==
  es.pc = "done" =>
    /\ ~HasReserved(es.unsafe) => (es.once = es.unsafe /\ es.twice = es.once)
    /\ HasReserved(es.unsafe) =>
         /\ WellEscaped(es.once)
         /\ es.twice # es.once
         /\ Len(es.twice) > Len(es.once)

\* "<a": escaped once "&lt;a", escaped twice "&amp;lt;a"
C13_Witness ==
  /\ es.pc = "done"
  /\ es.unsafe = <<"<", "a">>
  /\ es.once = <<"&", "l", "t", ";", "a">>
  /\ es.twice = <<"&", "a", "m", "p", ";", "l", "t", ";", "a">>

---------------------------------------------------------------------------
(* Properties of the concurrency specification *)

\* C14: while the counter entry of a client lives, the count it stores is
\* the number of requests of the client that passed the rate check since
\* the entry was created, and at most 10, however the invocations of the
\* client interleave.
C14_NoLostUpdate ==
  \A c \in Clients :
    (rateLimitCache[c].has /\ rateLimitCache[c].t >= now) =>
      /\ rateLimitCache[c].v = win[c].admitted
      /\ rateLimitCache[c].v <= 10

\* two invocations of the client are suspended in their slide jobs, the
\* 9th and the 10th admitted: the count is 10
C14_Witness ==
  /\ \A i \in ConcSlots : inv[i].pc = "slides" /\ inv[i].adm.client = "X"
  /\ {inv[i].adm.stored : i \in ConcSlots} = {9, 10}
  /\ rateLimitCache["X"].v = 10 /\ win["X"].admitted = 10

---------------------------------------------------------------------------
(* The rate check as a step (rate-limit specification) *)

Arrives(i) == inv[i].pc = "idle" /\ inv'[i].pc # "idle" /\ inv'[i].event.httpMethod = "POST"

\* C15: a request answered 429 has started no slide job and no upload and
\* leaves the counter table as it was, value and expiry; a request that
\* passes the check adds exactly 1 to the live count of its client, with
\* every slide job still at its start, and changes no other client's entry;
\* no later step of a request writes the table.
C15_RateCheckStep ==
  /\ \A i \in Slots :
       Arrives(i) =>
         LET e == inv'[i].event
             client == IF e.xff # "" THEN e.xff ELSE IF e.cip # "" THEN e.cip ELSE "unknown"
             live == rateLimitCache[client].has /\ rateLimitCache[client].t >= now
             before == IF live THEN rateLimitCache[client].v ELSE 0
         IN
         /\ \A c \in Clients \ {client} : rateLimitCache'[c] = rateLimitCache[c]
         /\ IF inv'[i].pc = "returned" /\ inv'[i].response.statusCode = 429
              THEN /\ rateLimitCache' = rateLimitCache
                   /\ inv'[i].jobs = <<>> /\ inv'[i].uploads = <<>> /\ inv'[i].results = <<>>
              ELSE /\ rateLimitCache'[client].has
                   /\ rateLimitCache'[client].v = before + 1
                   /\ \A k \in 1..Len(inv'[i].jobs) :
                        inv'[i].jobs[k].pc = "downloadImage" /\ inv'[i].jobs[k].result.keys = {}
                   /\ inv'[i].uploads = <<>>
  /\ (\A i \in Slots : ~Arrives(i)) => rateLimitCache' = rateLimitCache

C15_RejectionHasNoEffect == [][C15_RateCheckStep]_vars

\* client X is answered 429 at count 10 while the entry of the other client
\* holds its own count
C15_Witness ==
  \E i \in Slots :
    /\ inv[i].pc = "returned" /\ inv[i].response.statusCode = 429
    /\ inv[i].adm.client = "X" /\ inv[i].jobs = <<>>
    /\ rateLimitCache["X"].v = 10
    /\ rateLimitCache["unknown"].has /\ rateLimitCache["unknown"].v = 3

---------------------------------------------------------------------------
(* Properties of the download specification: the response callback *)

\* a step in which the response to the pending request arrives
ResponseStep == dl.pc = "request" /\ dl' # dl /\ ~dl'.fault

HttpStatusError == "Failed to download image: HTTP status"

\* C16: the request is issued again exactly for a response of status 301,
\* 302, 303, 307 or 308 that has a Location header; every other response
\* whose status is not 200 ends the download with the HTTP-status error.
C16_RedirectStep ==
  (ResponseStep /\ dl'.last.statusCode # 200) =>
    LET response == dl'.last
        followed == dl'.attempts = dl.attempts + 1
                    \/ dl'.outcome = Rejected(TooManyRedirectsError)
    IN
    IF response.statusCode \in {301, 302, 303, 307, 308} /\ response.location # ""
      THEN response.location # "invalid" => followed
      ELSE dl'.pc = "settled" /\ dl'.outcome = Rejected(HttpStatusError)

C16_RedirectCodes == [][C16_RedirectStep]_vars

ImageType(contentType) == contentType \in {"image/png"}

\* C17: a 200 response with a Content-Type that does not start with image/
\* fails with the content-type error and none of its body is read; with no
\* Content-Type or an image type it fails with the empty-response error if
\* no byte came, and else succeeds with the bytes received, in the order
\* they came; and the outcome, once settled, never changes.
C17_Classified ==
  /\ dl.last.statusCode = 200 =>
       LET contentType == dl.last.contentType IN
       /\ (contentType # "" /\ ~ImageType(contentType)) =>
            /\ dl.pc = "settled"
            /\ dl.outcome = Rejected("Invalid content type. Expected an image.")
            /\ dl.received = <<>>
       /\ ((contentType = "" \/ ImageType(contentType)) /\ dl.pc = "settled" /\ ~dl.fault) =>
            IF dl.received = <<>>
              THEN dl.outcome = Rejected("Empty response from image server")
              ELSE dl.outcome = Resolved(dl.received)
  /\ dl.outcome.state = "resolved" =>
       /\ dl.last.statusCode = 200
       /\ dl.outcome.value = dl.received /\ dl.received # <<>>

C17_SettledOnce ==
  dl.outcome.state # "pending" => (dl'.outcome = dl.outcome /\ dl'.pc = "settled")

C17_TerminalResponse == []C17_Classified /\ [][C17_SettledOnce]_vars

\* no Content-Type, the buffer "bc" and then the buffer "a": resolved "bca"
C17_Witness ==
  /\ dl.pc = "settled" /\ dl.last.statusCode = 200 /\ dl.last.contentType = ""
  /\ dl.chunks = << <<"b", "c">>, <<"a">> >>
  /\ dl.outcome = Resolved(<<"b", "c", "a">>)

---------------------------------------------------------------------------
(* Properties of the batch specification: the uploads *)

Good(results) == SelectSeq(results, LAMBDA r : r.success)

UploadFailed(i) == \E u \in 1..Len(inv[i].uploads) : ~inv[i].uploads[u].success

\* uploads start only after every slide job is done and only if asked for,
\* with a token and a successful slide; then there is one per successful
\* slide, in their order, and none for a failed slide
UploadsGated(i) ==
  LET e == inv[i].event IN
  /\ inv[i].uploads # <<>> =>
       /\ inv[i].pc \in {"uploads", "returned"}
       /\ \A k \in 1..Len(inv[i].jobs) : inv[i].jobs[k].pc = "returned"
       /\ e.uploadToDrive /\ e.driveToken
       /\ Len(Good(inv[i].results)) >= 1
  /\ (inv[i].pc \in {"uploads", "returned"} /\ inv[i].results # <<>>) =>
       /\ Len(inv[i].uploads) =
            IF e.uploadToDrive /\ e.driveToken THEN Len(Good(inv[i].results)) ELSE 0
       /\ \A u \in 1..Len(inv[i].uploads) : inv[i].uploads[u].file = Good(inv[i].results)[u].filename
       /\ \A k \in 1..Len(inv[i].results) : inv[i].results[k] = inv[i].jobs[k].result

\* a failed upload is an entry of driveUrls with success = false and the
\* error, next to the entries of the uploads that succeeded
UploadFailureRecorded(i) ==
  (inv[i].pc = "returned" /\ inv[i].uploads # <<>> /\ inv[i].response.statusCode = 200) =>
    LET r == inv[i].response IN
    /\ Len(r.driveUrls) = Len(inv[i].uploads)
    /\ "driveUrls" \in r.keys
    /\ \A u \in 1..Len(r.driveUrls) :
         /\ r.driveUrls[u].success = inv[i].uploads[u].success
         /\ ~r.driveUrls[u].success =>
              r.driveUrls[u].keys = {"success", "error"} /\ r.driveUrls[u].error # ""
    /\ Len(r.images) = Len(Good(inv[i].results))

\* the answer the request gets had every one of its uploads succeeded
AllUploaded(i) ==
  Assemble(inv[i].event, inv[i].results,
           [u \in 1..Len(inv[i].uploads) |-> DriveUrl(UploadOk(inv[i].uploads[u].file))])

\* C18 as stated: the uploads are gated and ordered as above, a failed
\* upload is recorded in driveUrls, and it never turns the response into an
\* error: a request that is answered 200 when its uploads succeed is
\* answered 200 when one of them fails.
C18_UploadNeverFailsBatch ==
  \A i \in Slots :
    /\ UploadsGated(i)
    /\ UploadFailureRecorded(i)
    /\ (inv[i].pc = "returned" /\ UploadFailed(i) /\ AllUploaded(i).statusCode = 200) =>
         inv[i].response.statusCode = 200

\* C18 amended: the uploads are gated and ordered as above, a failed upload
\* is recorded in driveUrls and never makes the handler fail (no 500); the
\* request is answered 200, or 413 when the response with the base64 images
\* that a failed upload brings back is longer than 6,000,000 bytes.
C18_UploadGating ==
  \A i \in Slots :
    /\ UploadsGated(i)
    /\ UploadFailureRecorded(i)
    /\ (inv[i].pc = "returned" /\ UploadFailed(i)) =>
         LET assembled == SuccessBody(inv[i].event, inv[i].results, Map(DriveUrl, inv[i].uploads)) IN
         /\ inv[i].response.statusCode \in {200, 413}
         /\ inv[i].response.statusCode = 413 <=> ResponseBytes(assembled) > 6000000
         /\ \A j \in 1..Len(assembled.images) : "base64" \in assembled.images[j].keys

\* two slides made, the first upload succeeded and the second failed: 200
\* with both images and both entries of driveUrls
C18_Witness ==
  \E i \in Slots :
    /\ inv[i].pc = "returned" /\ inv[i].response.statusCode = 200
    /\ Len(inv[i].uploads) = 2
    /\ inv[i].uploads[1].success /\ ~inv[i].uploads[2].success
    /\ Len(inv[i].response.images) = 2
    /\ inv[i].response.driveUrls[2].error = "Invalid Credentials"

---------------------------------------------------------------------------
(* Properties of the termination specification *)

JobDone(i, k) == k <= Len(inv[i].jobs) /\ inv[i].jobs[k].pc = "returned"

\* C19: a download makes at most 11 requests; every slide job of a request
\* that was admitted and is valid comes to return its result; the request
\* comes to be answered 200 or 413; and its answer, once given, stays.
C19_AttemptsBounded == dl.attempts <= 11

C19_Answered ==
  \A i \in Slots :
    /\ \A k \in 1..MaxSlides :
         (inv[i].pc = "slides" /\ k <= Len(inv[i].jobs)) ~> JobDone(i, k)
    /\ (inv[i].pc = "slides") ~> (inv[i].pc = "returned" /\ inv[i].response.statusCode \in {200, 413})

C19_OneResponse ==
  \A i \in Slots : inv[i].pc = "returned" => inv'[i] = inv[i]

C19_Termination == []C19_AttemptsBounded /\ C19_Answered /\ [][C19_OneResponse]_vars

\* the download of the first slide took the 11 requests it may take, and
\* the request is answered 200 with the slide
C19_Witness ==
  \E i \in Slots :
    /\ inv[i].pc = "returned" /\ inv[i].response.statusCode = 200
    /\ dl.attempts = 11 /\ dl.outcome.state = "resolved"
    /\ inv[i].results[1].success

---------------------------------------------------------------------------
(* The quota as a step (rate-limit specification) *)

\* a step in which the handler is called
Called(i) == inv[i].pc = "idle" /\ inv'[i].pc # "idle"

\* C21: a POST request that passes the rate check adds 1 to the count of
\* its client, and renews its expiry, also when the request is then
\* answered 400 or 500; an OPTIONS request or a request of another method
\* neither reads nor writes the counter table.
C21_QuotaStep ==
  \A i \in Slots :
    Called(i) =>
      LET e == inv'[i].event
          client == IF e.xff # "" THEN e.xff ELSE IF e.cip # "" THEN e.cip ELSE "unknown"
          live == rateLimitCache[client].has /\ rateLimitCache[client].t >= now
          before == IF live THEN rateLimitCache[client].v ELSE 0
      IN
      IF e.httpMethod # "POST"
        THEN /\ rateLimitCache' = rateLimitCache
             /\ win' = win
             /\ ~inv'[i].adm.checked
             /\ inv'[i].pc = "returned" /\ inv'[i].response.statusCode \in {200, 405}
        ELSE /\ inv'[i].adm.checked
             /\ before < 10 =>
                  /\ rateLimitCache'[client] = [has |-> TRUE, v |-> before + 1, t |-> now + 60]
                  /\ (e.parse = "throws") =>
                       inv'[i].pc = "returned" /\ inv'[i].response.statusCode = 500
                  /\ (e.parse = "ok" /\ BadShape(e)) =>
                       inv'[i].pc = "returned" /\ inv'[i].response.statusCode = 400

C21_QuotaConsumedAtAdmission == [][C21_QuotaStep]_vars

\* the tenth request of client X does not parse: 500, and the count is 10
C21_Witness ==
  \E i \in Slots :
    /\ inv[i].pc = "returned" /\ inv[i].response.statusCode = 500
    /\ inv[i].adm.client = "X" /\ inv[i].adm.stored = 10
    /\ rateLimitCache["X"].v = 10

---------------------------------------------------------------------------
(* Properties of the batch specification: the size check comes last *)

AskedUpload(i) ==
  /\ inv[i].event.uploadToDrive /\ inv[i].event.driveToken
  /\ Good(inv[i].results) # <<>>

\* whenever the answer is 413 to a request that asked for upload with a
\* token and made a slide, every slide job is done and every successful
\* slide was handed to the file store, whose answer is in
C22_UploadsBefore413 ==
  \A i \in Slots :
    (inv[i].pc = "returned" /\ inv[i].response.statusCode = 413 /\ AskedUpload(i)) =>
      /\ \A k \in 1..Len(inv[i].jobs) : inv[i].jobs[k].pc = "returned"
      /\ Len(inv[i].uploads) = Len(Good(inv[i].results))
      /\ \A u \in 1..Len(inv[i].uploads) :
           /\ inv[i].uploads[u].pc = "returned"
           /\ inv[i].uploads[u].file = Good(inv[i].results)[u].filename

\* the 413 is decided in the step that follows the last upload, and no
\* step after the answer touches the uploads or the results
C22_NothingRolledBack ==
  \A i \in Slots :
    /\ (inv[i].pc # "returned" /\ inv'[i].pc = "returned"
        /\ inv'[i].response.statusCode = 413) =>
         /\ inv'[i].uploads = inv[i].uploads
         /\ inv'[i].results = inv[i].results \/ inv[i].pc = "slides"
         /\ AskedUpload(i) => inv[i].pc = "uploads"
    /\ inv[i].pc = "returned" =>
         inv'[i].uploads = inv[i].uploads /\ inv'[i].results = inv[i].results

\* C22: a 413 is decided only after all slide jobs and all requested
\* uploads have completed: every successful slide has been submitted to the
\* file store by then, and nothing is rolled back.
C22_SizeCheckAfterUploads == []C22_UploadsBefore413 /\ [][C22_NothingRolledBack]_vars

\* two slides of 3,000,000 bytes, both uploaded, base64 asked for: 413
C22_Witness ==
  \E i \in Slots :
    /\ inv[i].pc = "returned" /\ inv[i].response.statusCode = 413
    /\ inv[i].event.uploadToDrive /\ inv[i].event.driveToken /\ ~inv[i].event.returnUrls
    /\ Len(inv[i].uploads) = 2
    /\ \A u \in 1..2 : inv[i].uploads[u].success

====
